---- MODULE Spec2Model ----
(***************************************************************************)
(* Student Study Planner (src/app.py): the session state, the three add    *)
(* forms, the completion checkbox and the greedy plan generator            *)
(* generate_study_plan.                                                    *)
(*                                                                         *)
(* Units.  Hours are floats in the program.  The model counts them in      *)
(* thousandths of an hour (1.0 h = 1000), so that round(x, 2) is a real    *)
(* operation (rounding to a multiple of 10) and not the identity.  The     *)
(* model takes estimated hours from the grid of the add-task form, 0.5,    *)
(* 1.0, ..., 50.0 (number_input: min 0.5, max 50.0, step 0.5), and the     *)
(* sidebar offers an integer number of hours per day, so every quantity    *)
(* the scheduler computes is a multiple of 0.5 below 2^53 and the float    *)
(* arithmetic of the program is exact on it.  Estimated hours off that     *)
(* grid (a value typed with more decimals) are outside the model.          *)
(*                                                                         *)
(* Dates are integers (days); None is the empty sequence and a date d the  *)
(* one-element sequence <<d>>.  Text is a sequence of characters.          *)
(***************************************************************************)
EXTENDS Integers, Sequences, FiniteSets

VARIABLES
    subjects,   \* st.session_state.subjects
    tasks,      \* st.session_state.tasks
    exams,      \* st.session_state.exams
    next_id,    \* st.session_state.next_id
    schedule,   \* st.session_state.schedule
    today,      \* date.today(); the date does not change during a session of the model
    last,       \* history: the last operation, and for a plan run its inputs and result
    original,   \* history: per task (by position), estimated_hours when it was added
    allocated   \* history: per task, planned_hours summed over all plan runs so far

vars == <<subjects, tasks, exams, next_id, schedule, today, last, original, allocated>>

(***************************************************************************)
(* Bounds of the model.                                                    *)
(***************************************************************************)
MaxSubjects == 1
MaxTasks == 1
MaxExams == 1
MaxDailyHours == 3
MaxNumDays == 3
MaxPlanTasks == 2
MaxScoreTasks == 2

(***************************************************************************)
(* Program constants.                                                      *)
(***************************************************************************)
DefaultDaysLeft == 30
DefaultDailyHours == 4
DefaultNumDays == 5

None == <<>>

Min(a, b) == IF a < b THEN a ELSE b
Max(a, b) == IF a > b THEN a ELSE b

RECURSIVE SumSeq(_)
SumSeq(s) == IF s = <<>> THEN 0 ELSE Head(s) + SumSeq(Tail(s))

(***************************************************************************)
(* str.strip(): leading and trailing whitespace removed.                   *)
(***************************************************************************)
Whitespace == {" "}

RECURSIVE lstrip(_)
lstrip(s) == IF s # <<>> /\ Head(s) \in Whitespace THEN lstrip(Tail(s)) ELSE s

RECURSIVE rstrip(_)
rstrip(s) ==
    IF s # <<>> /\ s[Len(s)] \in Whitespace
    THEN rstrip(SubSeq(s, 1, Len(s) - 1))
    ELSE s

strip(s) == rstrip(lstrip(s))

(***************************************************************************)
(* The values the widgets can deliver.                                     *)
(***************************************************************************)
TextInputs == {<<" ">>, <<" ", "a", " ">>}
OptionalTextInputs == {<<" ">>}
\* number_input(min_value=0.5, max_value=50.0, value=2.0, step=0.5), in 1/1000 h
EstimatedHoursInputs == {500, 1500, 5000}
\* date_input, or None when "This task has a due date" is unticked
DueDateInputs == {None, <<-2>>, <<-1>>, <<0>>, <<1>>, <<3>>}
ImportanceInputs == {1, 2}
DifficultyInputs == {1, 4}
ExamDateInputs == {<<0>>}
DailyHoursInputs == 1..MaxDailyHours
NumDaysInputs == 1..MaxNumDays

(***************************************************************************)
(* float(n) of an integer number of hours, and round(x, 2) (to the nearest *)
(* hundredth, ties to even), both in thousandths of an hour.               *)
(***************************************************************************)
float(n) == n * 1000

Round2(x) ==
    LET r == x % 10
        lo == x - r
    IN  IF r < 5 THEN lo
        ELSE IF r > 5 THEN lo + 10
        ELSE IF (lo \div 10) % 2 = 0 THEN lo ELSE lo + 10

(***************************************************************************)
(* get_new_id: the id handed out, and the counter after the call.          *)
(***************************************************************************)
new_id == next_id

\* mutant of incremented: the counter is handed out but not advanced
not_incremented(n) == n

incremented(n) == n + 1

get_subject_names == [i \in 1..Len(subjects) |-> subjects[i].name]

(***************************************************************************)
(* History records.  Ran(...) describes a call of generate_study_plan:     *)
(* its arguments, the date it read, estimated_hours of every task before   *)
(* the call (pre), the sorted tasks_with_score (scored: task position and  *)
(* score), the returned plan, and for each plan entry the position of the  *)
(* task it was made for (owner), and whether a non-empty schedule was      *)
(* stored when the call began (stale).  Did(op) describes any other        *)
(* operation.                                                              *)
(***************************************************************************)
Ran(daily_hours, num_days, pre, scored, plan, owner) ==
    [op |-> "generate_study_plan", daily_hours |-> daily_hours,
     num_days |-> num_days, today |-> today, pre |-> pre, scored |-> scored,
     plan |-> plan, owner |-> owner, stale |-> schedule # <<>>]

Did(op) ==
    [op |-> op, daily_hours |-> 0, num_days |-> 0, today |-> today,
     pre |-> <<>>, scored |-> <<>>, plan |-> <<>>, owner |-> <<>>,
     stale |-> FALSE]

(***************************************************************************)
(* init_state, on a fresh session.                                         *)
(***************************************************************************)
init_state ==
    /\ subjects = <<>>
    /\ tasks = <<>>
    /\ exams = <<>>
    /\ next_id = 1
    /\ schedule = <<>>

Init ==
    /\ init_state
    /\ today = 0
    /\ last = Did("init_state")
    /\ original = <<>>
    /\ allocated = <<>>

(***************************************************************************)
(* subjects_tab: the "Add Subject" form is submitted.                      *)
(***************************************************************************)
subjects_tab(name, teacher, code) ==
    /\ IF strip(name) = <<>>
       THEN /\ last' = Did("rejected")
            /\ UNCHANGED <<subjects, next_id>>
       ELSE /\ Len(subjects) < MaxSubjects
            /\ subjects' = Append(subjects,
                   [id |-> new_id, name |-> strip(name),
                    teacher |-> strip(teacher), code |-> strip(code)])
            /\ next_id' = incremented(next_id)
            /\ last' = Did("add_subject")
    /\ UNCHANGED <<tasks, exams, schedule, today, original, allocated>>

(***************************************************************************)
(* tasks_tab: the "Add Task" form is submitted (the tab shows the form     *)
(* only when a subject exists).                                            *)
(***************************************************************************)
tasks_tab(title, subject, estimated_hours, due_date, importance, difficulty) ==
    /\ subjects # <<>>
    /\ IF strip(title) = <<>>
       THEN /\ last' = Did("rejected")
            /\ UNCHANGED <<tasks, next_id, original, allocated>>
       ELSE /\ Len(tasks) < MaxTasks
            /\ tasks' = Append(tasks,
                   [id |-> new_id, title |-> strip(title), subject |-> subject,
                    estimated_hours |-> estimated_hours, due_date |-> due_date,
                    importance |-> importance, difficulty |-> difficulty,
                    status |-> "Pending"])
            /\ next_id' = incremented(next_id)
            /\ original' = Append(original, estimated_hours)
            /\ allocated' = Append(allocated, 0)
            /\ last' = Did("add_task")
    /\ UNCHANGED <<subjects, exams, schedule, today>>

(***************************************************************************)
(* tasks_tab: the "Mark ... as completed" checkbox of pending task i.      *)
(***************************************************************************)
mark_completed(i) ==
    /\ tasks[i].status = "Pending"
    /\ tasks' = [tasks EXCEPT ![i].status = "Completed"]
    /\ last' = Did("mark_completed")
    /\ UNCHANGED <<subjects, exams, next_id, schedule, today, original, allocated>>

(***************************************************************************)
(* exams_tab: the "Add Exam" form is submitted.                            *)
(***************************************************************************)
exams_tab(subject, title, exam_date, syllabus) ==
    /\ subjects # <<>>
    /\ IF strip(title) = <<>>
       THEN /\ last' = Did("rejected")
            /\ UNCHANGED <<exams, next_id>>
       ELSE /\ Len(exams) < MaxExams
            /\ exams' = Append(exams,
                   [id |-> new_id, subject |-> subject, title |-> strip(title),
                    date |-> exam_date, syllabus |-> strip(syllabus)])
            /\ next_id' = incremented(next_id)
            /\ last' = Did("add_exam")
    /\ UNCHANGED <<subjects, tasks, schedule, today, original, allocated>>

(***************************************************************************)
(* generate_study_plan, scoring step.                                      *)
(*                                                                         *)
(* A score is importance * 2 + difficulty + 5.0 / days_left, a rational    *)
(* with denominator days_left; the model keeps it as the exact fraction    *)
(* num / den and compares fractions by cross-multiplication.  The floats   *)
(* of the program order the same way: two scores that differ as rationals  *)
(* differ by at least 1 / (den1 * den2), far above the rounding error of   *)
(* one division and two additions, and two scores that are equal as        *)
(* rationals with different denominators have 5 / days_left in             *)
(* {5, 2.5, 1.25, 1, 0.5, 0.25}, all exact in binary.                      *)
(***************************************************************************)
\* mutant of days_left: a date that is not in the future is not raised to 1
days_left_unclamped(due_date, today_) ==
    IF due_date = None
    THEN DefaultDaysLeft
    ELSE LET d0 == due_date[1] - today_
         IN  IF d0 < 0 THEN 0 ELSE d0

days_left(due_date, today_) ==
    IF due_date = None
    THEN DefaultDaysLeft
    ELSE LET d0 == due_date[1] - today_
             d == IF d0 < 0 THEN 0 ELSE d0
         IN  IF d > 0 THEN d ELSE 1

\* mutant of score: days_left is used where its inverse, the urgency, belongs
score_urgency_not_inverted(t, today_) ==
    [num |-> t.importance * 2 + t.difficulty + days_left(t.due_date, today_) * 5,
     den |-> 1]

score(t, today_) ==
    LET dl == days_left(t.due_date, today_)
    IN  [num |-> (t.importance * 2 + t.difficulty) * dl + 5, den |-> dl]

ScoreLess(a, b) == a.num * b.den < b.num * a.den

ScoreEqual(a, b) == a.num * b.den = b.num * a.den

\* positions, in list order, of the tasks whose status is Pending
pending_tasks ==
    SelectSeq([i \in 1..Len(tasks) |-> i], LAMBDA i : tasks[i].status = "Pending")

tasks_with_score(pending, today_) ==
    [k \in 1..Len(pending) |->
        [task |-> pending[k], score |-> score(tasks[pending[k]], today_)]]

(***************************************************************************)
(* list.sort(key=score, reverse=True): descending and stable, elements of  *)
(* equal score keep their order.                                           *)
(***************************************************************************)
RECURSIVE insert_desc(_, _)
insert_desc(sorted, x) ==
    IF sorted = <<>> THEN <<x>>
    ELSE IF ScoreLess(Head(sorted).score, x.score) THEN <<x>> \o sorted
    ELSE <<Head(sorted)>> \o insert_desc(Tail(sorted), x)

\* mutant of sort_desc: the list is left in the order of the task list
unsorted(s) == s

RECURSIVE sort_desc(_)
sort_desc(s) ==
    IF s = <<>> THEN <<>>
    ELSE insert_desc(sort_desc(SubSeq(s, 1, Len(s) - 1)), s[Len(s)])

(***************************************************************************)
(* generate_study_plan, allocation step.  The loop state st holds          *)
(* estimated_hours of every task (est, by position), day_hours_left,       *)
(* time_block_index, the plan so far and the owner of each entry.          *)
(***************************************************************************)
\* mutants of assigned: one of the two operands of min is forgotten
assigned_ignoring_estimate(day_hours_left, estimated_hours) == day_hours_left

assigned_ignoring_capacity(day_hours_left, estimated_hours) == estimated_hours

assigned(day_hours_left, estimated_hours) == Min(day_hours_left, estimated_hours)

\* mutants of reduced: the task's hours are left as they were, or grow
not_reduced(estimated_hours, hours) == estimated_hours

increased(estimated_hours, hours) == estimated_hours + hours

reduced(estimated_hours, hours) == estimated_hours - hours

\* mutant of next_date: the date does not advance
same_date(current_date) == current_date

next_date(current_date) == current_date + 1

entry(current_date, time_block_index, t, hours) ==
    [date |-> current_date, time_block |-> <<"Session", time_block_index>>,
     subject |-> t.subject, task_title |-> t.title,
     planned_hours |-> Round2(hours)]

RECURSIVE task_loop(_, _, _, _)
task_loop(order, i, st, current_date) ==
    IF i > Len(order) THEN st
    ELSE LET t == order[i].task
         IN  IF st.est[t] <= 0 THEN task_loop(order, i + 1, st, current_date)
             ELSE IF st.day_hours_left <= 0 THEN st
             ELSE LET a == assigned(st.day_hours_left, st.est[t])
                  IN  IF a <= 0 THEN task_loop(order, i + 1, st, current_date)
                      ELSE task_loop(order, i + 1,
                              [est |-> [st.est EXCEPT ![t] = reduced(@, a)],
                               day_hours_left |-> st.day_hours_left - a,
                               time_block_index |-> st.time_block_index + 1,
                               plan |-> Append(st.plan,
                                   entry(current_date, st.time_block_index, tasks[t], a)),
                               owner |-> Append(st.owner, t)],
                              current_date)

RECURSIVE day_loop(_, _, _, _, _, _)
day_loop(order, day_index, num_days, daily_hours, st, current_date) ==
    IF day_index >= num_days THEN st
    ELSE day_loop(order, day_index + 1, num_days, daily_hours,
            task_loop(order, 1,
                [st EXCEPT !.day_hours_left = float(daily_hours),
                           !.time_block_index = 1],
                current_date),
            next_date(current_date))

\* mutant of empty_schedule: the stored schedule is left as it is
stale_schedule == schedule

empty_schedule == <<>>

SumOwned(plan, owner, t) ==
    SumSeq([k \in 1..Len(plan) |-> IF owner[k] = t THEN plan[k].planned_hours ELSE 0])

\* scored and st are bound once each (\E over a one-element set): the sorted
\* list and the outcome of the two loops
generate_study_plan(daily_hours, num_days) ==
    /\ LET pending == pending_tasks
           pre == [i \in 1..Len(tasks) |-> tasks[i].estimated_hours]
       IN  IF pending = <<>>
           THEN /\ schedule' = empty_schedule
                /\ last' = Ran(daily_hours, num_days, pre, <<>>, <<>>, <<>>)
                /\ UNCHANGED <<tasks, allocated>>
           ELSE \E scored \in {sort_desc(tasks_with_score(pending, today))} :
                \E st \in {day_loop(scored, 0, num_days, daily_hours,
                              [est |-> pre, day_hours_left |-> 0,
                               time_block_index |-> 1, plan |-> <<>>, owner |-> <<>>],
                              today)} :
                    /\ tasks' = [i \in 1..Len(tasks) |->
                                    [tasks[i] EXCEPT !.estimated_hours = st.est[i]]]
                    /\ schedule' = st.plan
                    /\ last' = Ran(daily_hours, num_days, pre, scored, st.plan, st.owner)
                    /\ allocated' = [i \in 1..Len(tasks) |->
                                        allocated[i] + SumOwned(st.plan, st.owner, i)]
    /\ UNCHANGED <<subjects, exams, next_id, today, original>>

(***************************************************************************)
(* plan_tab: the "Generate Study Plan" button, shown once a task exists.   *)
(***************************************************************************)
plan_tab(daily_hours, num_days) ==
    /\ tasks # <<>>
    /\ generate_study_plan(daily_hours, num_days)

(***************************************************************************)
(* The application: one user interaction per step.                         *)
(***************************************************************************)
AddSubject ==
    \E name \in TextInputs, teacher \in OptionalTextInputs, code \in OptionalTextInputs :
        subjects_tab(name, teacher, code)

AddTask ==
    \E title \in TextInputs, k \in 1..Len(subjects),
       estimated_hours \in {500, 1500}, due_date \in {None},
       importance \in {3}, difficulty \in {3} :
        tasks_tab(title, get_subject_names[k], estimated_hours, due_date,
                  importance, difficulty)

MarkCompleted == \E i \in 1..Len(tasks) : mark_completed(i)

AddExam ==
    \E k \in 1..Len(subjects), title \in TextInputs, exam_date \in ExamDateInputs,
       syllabus \in OptionalTextInputs :
        exams_tab(get_subject_names[k], title, exam_date, syllabus)

GeneratePlan ==
    \E daily_hours \in DailyHoursInputs, num_days \in NumDaysInputs :
        plan_tab(daily_hours, num_days)

Next == AddSubject \/ AddTask \/ MarkCompleted \/ AddExam \/ GeneratePlan

Spec == Init /\ [][Next]_vars

(***************************************************************************)
(* The scheduler on its own: the session holds one subject and a list of   *)
(* tasks added after it, and generate_study_plan is called directly.       *)
(***************************************************************************)
TaskInputs(hours, dues, importances, difficulties, statuses) ==
    [estimated_hours : hours, due_date : dues, importance : importances,
     difficulty : difficulties, status : statuses]

SessionWith(n, f, date) ==
    /\ subjects = <<[id |-> 1, name |-> <<"a">>, teacher |-> <<>>, code |-> <<>>]>>
    /\ tasks = [i \in 1..n |->
                   [id |-> i + 1, title |-> <<"a">>, subject |-> <<"a">>,
                    estimated_hours |-> f[i].estimated_hours,
                    due_date |-> f[i].due_date, importance |-> f[i].importance,
                    difficulty |-> f[i].difficulty, status |-> f[i].status]]
    /\ exams = <<>>
    /\ next_id = n + 2
    /\ schedule = <<>>
    /\ today = date
    /\ last = [Did("init_state") EXCEPT !.today = date]
    /\ original = [i \in 1..n |-> f[i].estimated_hours]
    /\ allocated = [i \in 1..n |-> 0]

Generate ==
    \E daily_hours \in DailyHoursInputs, num_days \in NumDaysInputs :
        generate_study_plan(daily_hours, num_days)

\* the plan is generated again and again with any sidebar settings, and
\* nothing else happens
RerunInit ==
    \E n \in 1..MaxPlanTasks :
        \E f \in [1..n -> TaskInputs({1500, 5000}, {None}, ImportanceInputs,
                                     {3}, {"Pending", "Completed"})] :
            SessionWith(n, f, 0)

RerunSpec == RerunInit /\ [][Generate]_vars

\* the plan is generated for ever (weak fairness of the call), with each
\* sidebar slider at its minimum or at its default, over tasks of varied
\* effort and status
GenerateAgain ==
    \E daily_hours \in {1, DefaultDailyHours}, num_days \in {1, DefaultNumDays} :
        generate_study_plan(daily_hours, num_days)

ExhaustInit ==
    \E n \in 1..MaxPlanTasks :
        \E f \in [1..n -> TaskInputs({1500, 5000}, {None}, {3}, {3},
                                     {"Pending", "Completed"})] :
            SessionWith(n, f, 0)

ExhaustSpec == ExhaustInit /\ [][GenerateAgain]_vars /\ WF_vars(GenerateAgain)

\* the application, with generate_study_plan called in any state of the
\* session (plan_tab calls it only once a task exists)
DirectNext == AddSubject \/ AddTask \/ MarkCompleted \/ Generate

DirectSpec == Init /\ [][DirectNext]_vars

\* the plan is generated with the sidebar left at its defaults, on either of
\* two days, over tasks of varied due date, importance and difficulty
GenerateDefault == generate_study_plan(DefaultDailyHours, DefaultNumDays)

ScoreInit ==
    \E n \in 1..MaxScoreTasks, date \in {0, 1} :
        \E f \in [1..n -> TaskInputs({500}, DueDateInputs, ImportanceInputs,
                                     DifficultyInputs, {"Pending"})] :
            SessionWith(n, f, date)

ScoreSpec == ScoreInit /\ [][GenerateDefault]_vars

(***************************************************************************)
(* Vocabulary of the properties.                                           *)
(***************************************************************************)
RanPlan == last.op = "generate_study_plan"

Planned(t) == SumOwned(last.plan, last.owner, t)

EntriesOf(t) == {k \in 1..Len(last.plan) : last.owner[k] = t}

PlanDates == {last.plan[k].date : k \in 1..Len(last.plan)}

PlannedOn(d) ==
    SumSeq([k \in 1..Len(last.plan) |->
               IF last.plan[k].date = d THEN last.plan[k].planned_hours ELSE 0])

AllPendingExhausted ==
    \A i \in 1..Len(tasks) :
        tasks[i].status = "Pending" => tasks[i].estimated_hours = 0

C4_NoPendingClearsSchedule ==
    (RanPlan /\ \A i \in 1..Len(tasks) : tasks[i].status # "Pending") =>
        /\ last.plan = <<>>
        /\ schedule = <<>>
        /\ \A i \in 1..Len(tasks) : tasks[i].estimated_hours = last.pre[i]

\* every task is Completed and the run replaced a non-empty schedule
C4_Witness ==
    /\ RanPlan
    /\ tasks # <<>>
    /\ \A i \in 1..Len(tasks) : tasks[i].status = "Completed"
    /\ last.stale
    /\ schedule = <<>>

\* the run found no task at all
C4_WitnessNoTasks == RanPlan /\ tasks = <<>> /\ schedule = <<>>

Overdue(t) == t.due_date # None /\ t.due_date[1] < last.today

DueTomorrow(t) == t.due_date # None /\ t.due_date[1] = last.today + 1

C7_OverdueAsTomorrow ==
    RanPlan =>
        /\ \A k \in 1..Len(last.scored) :
            LET t == tasks[last.scored[k].task]
                s == last.scored[k].score
            IN  /\ s.den # 0
                /\ (Overdue(t) \/ DueTomorrow(t)) =>
                       /\ s.den = 1
                       /\ s.num = t.importance * 2 + t.difficulty + 5
        /\ \A k, m \in 1..Len(last.scored) :
            LET t == tasks[last.scored[k].task]
                u == tasks[last.scored[m].task]
            IN  (/\ Overdue(t)
                 /\ DueTomorrow(u)
                 /\ t.importance = u.importance
                 /\ t.difficulty = u.difficulty) =>
                    ScoreEqual(last.scored[k].score, last.scored[m].score)

\* two scored tasks of equal importance and difficulty, one two days overdue,
\* one due tomorrow
C7_Witness ==
    /\ RanPlan
    /\ \E k, m \in 1..Len(last.scored) :
        LET t == tasks[last.scored[k].task]
            u == tasks[last.scored[m].task]
        IN  /\ t.due_date = <<last.today - 2>>
            /\ DueTomorrow(u)
            /\ t.importance = u.importance
            /\ t.difficulty = u.difficulty
            /\ ScoreEqual(last.scored[k].score, last.scored[m].score)

(***************************************************************************)
(* C8.  When generate_study_plan is called again and again (daily capacity *)
(* > 0, horizon >= 1, no task added, no status changed), no task's         *)
(* remaining effort ever increases from one run to the next, eventually    *)
(* every pending task has remaining effort 0 and keeps it, and from then   *)
(* on every run returns the empty plan.                                    *)
(***************************************************************************)
C8_RerunsExhaust ==
    /\ [][\A i \in 1..Len(tasks) :
             tasks'[i].estimated_hours <= tasks[i].estimated_hours]_vars
    /\ <>[]AllPendingExhausted
    /\ [][AllPendingExhausted => last'.plan = <<>>]_vars

\* a pending task of positive effort is exhausted, and the last run found
\* nothing left to plan
C8_Witness ==
    /\ RanPlan
    /\ AllPendingExhausted
    /\ \E i \in 1..Len(tasks) :
        /\ tasks[i].status = "Pending"
        /\ original[i] > 0
        /\ last.pre[i] = 0
    /\ last.scored # <<>>
    /\ last.plan = <<>>

(***************************************************************************)
(* C9.  As claimed: of any two pending tasks, the one of strictly higher   *)
(* importance gets the strictly higher score and comes earlier in the      *)
(* sorted order, whatever their difficulties and due dates.                *)
(***************************************************************************)
C9_ImportanceDominates ==
    RanPlan =>
        \A k, m \in 1..Len(last.scored) :
            tasks[last.scored[k].task].importance
                    > tasks[last.scored[m].task].importance =>
                /\ ScoreLess(last.scored[m].score, last.scored[k].score)
                /\ k < m

(***************************************************************************)
(* C9, amended.  Of any two pending tasks, the one of strictly higher      *)
(* importance gets the strictly higher score and comes earlier in the      *)
(* sorted order, provided its difficulty is not lower and its days_left is *)
(* not larger than the other's.                                            *)
(***************************************************************************)
C9_ImportanceDecidesOtherwiseEqual ==
    RanPlan =>
        \A k, m \in 1..Len(last.scored) :
            LET t == tasks[last.scored[k].task]
                u == tasks[last.scored[m].task]
            IN  (/\ t.importance > u.importance
                 /\ t.difficulty >= u.difficulty
                 /\ days_left(t.due_date, last.today)
                        <= days_left(u.due_date, last.today)) =>
                    /\ ScoreLess(last.scored[m].score, last.scored[k].score)
                    /\ k < m

\* the task of higher importance was added second and is sorted first, being
\* also the more difficult and the more urgent one
C9_Witness ==
    /\ RanPlan
    /\ Len(last.scored) = 2
    /\ last.scored[1].task = 2
    /\ tasks[2].importance > tasks[1].importance
    /\ tasks[2].difficulty > tasks[1].difficulty
    /\ days_left(tasks[2].due_date, last.today)
           < days_left(tasks[1].due_date, last.today)

(***************************************************************************)
(* C10.  After any sequence of add-subject, add-task and add-exam          *)
(* submissions, rejected ones included: the ids of all stored records are  *)
(* pairwise distinct across the three lists, next_id is greater than every *)
(* stored id, a record added by a step gets an id greater than every id    *)
(* stored before the step, and a rejected submission leaves next_id and    *)
(* the three lists as they were.                                           *)
(***************************************************************************)
Ids(list) == {list[k].id : k \in 1..Len(list)}

AllIds == Ids(subjects) \cup Ids(tasks) \cup Ids(exams)

Added(old, new) ==
    IF Len(new) > Len(old)
    THEN {new[k].id : k \in (Len(old) + 1)..Len(new)}
    ELSE {}

C10_IdsUniqueAndIncreasing ==
    /\ [](/\ Cardinality(AllIds) = Len(subjects) + Len(tasks) + Len(exams)
          /\ \A id \in AllIds : id < next_id)
    /\ [][/\ \A new \in Added(subjects, subjects') \cup Added(tasks, tasks')
                          \cup Added(exams, exams') :
                 \A old \in AllIds : new > old
          /\ last'.op = "rejected" =>
                 /\ next_id' = next_id
                 /\ subjects' = subjects
                 /\ tasks' = tasks
                 /\ exams' = exams]_vars

\* a subject, a task and an exam are stored, and the last submission was
\* rejected
C10_Witness ==
    /\ subjects # <<>>
    /\ tasks # <<>>
    /\ exams # <<>>
    /\ last.op = "rejected"
    /\ next_id = 4

====
